---- MODULE Spec2Model ----
(***************************************************************************)
(* A model of src/multikeydb.py: MultiKeyDB, a key-value store over a      *)
(* relational backing store (SQLite through SQLAlchemy).                   *)
(*                                                                         *)
(* The state is the persisted database (one physical table per logical     *)
(* table, rows in the store's natural order), the instance's MetaData and  *)
(* its catalog self.tables, the position of each caller thread inside a    *)
(* put (whose SELECT and INSERT/UPDATE are two statements), the generator   *)
(* a dump call returned, the transactions that are open, and the last step *)
(* of a call, with its arguments and its outcome.                          *)
(***************************************************************************)
EXTENDS Integers, Sequences, FiniteSets, TLC

VARIABLES
    db,        \* the database file: table name -> [columns, pk, rows]
    metadata,  \* self.metadata.tables: table name -> table definition
    tables,    \* self.tables: the table definitions, in the dict's insertion order
    pc,        \* caller thread -> where it is (idle, or between put's statements)
    last,      \* history: <<table name, key tuple>> -> the payload of the last put that
               \* wrote the key since its last delete
    ev,        \* the last step of a call: operation, arguments, outcome, result
    env,       \* the values the callers pass: table names, integer keys, payloads
    gen,       \* the generator a dump call returned, where it is suspended, and
               \* history: what it yielded, and the records stored ever since the call
    txns,      \* the open transactions (engine.begin() entered, not yet left), by owner
    began      \* whether the last step of a call entered engine.begin()

vars == <<db, metadata, tables, pc, last, ev, env, gen, txns, began>>

----------------------------------------------------------------------------
(* Bounds of the model *)

\* key values of an integer key column are 1..MaxKey
MaxKey == 2

----------------------------------------------------------------------------
(* Python values and the JSON codec (json.dumps / json.loads) *)

\* Python's None: what json.loads("null") gives, and what get returns for no row
PyNone == [t |-> "none"]

PyInt(n) == [t |-> "int", v |-> n]

\* a str, as its sequence of characters
PyStr(s) == [t |-> "str", v |-> s]

DigitChars == <<"0", "1", "2", "3", "4", "5", "6", "7", "8", "9">>

NullText == <<"n", "u", "l", "l">>

Quote == "\""

\* json.dumps of a None, a one-digit int or a str without escapes
dumps(v) ==
    IF v.t = "none" THEN NullText
    ELSE IF v.t = "int" THEN <<DigitChars[v.v + 1]>>
    ELSE <<Quote>> \o v.v \o <<Quote>>

\* json.loads of a text dumps produced
loads(s) ==
    IF s = NullText THEN PyNone
    ELSE IF Head(s) = Quote THEN PyStr(SubSeq(s, 2, Len(s) - 1))
    ELSE PyInt((CHOOSE i \in 1..10 : DigitChars[i] = s[1]) - 1)

----------------------------------------------------------------------------
(* The callers' inputs *)

Threads == {"T1", "T2"}

TextKeys == {"x"}

\* types_to_constructors: int -> Integer, str -> String
types_to_constructors(coltype) == IF coltype = "int" THEN "INTEGER" ELSE "VARCHAR"

\* the keys arguments of create: ordered mappings column name -> Python type,
\* of no, one or two key columns
KeyDecls ==
    { <<>>,
      <<[name |-> "a", type |-> "int"]>>,
      <<[name |-> "a", type |-> "int"], [name |-> "table", type |-> "str"]>> }

\* the values the callers pass in a run: one table name with all the keys and
\* payloads; or two table names with one integer key and the payloads None and
\* 1; or two table names and one record, the callers stepping through dump's
\* generator (lazy) instead of iterating it to its end at once
Envs ==
    { [names |-> {"t1"}, keys |-> 1..MaxKey,
       payloads |-> {PyNone, PyInt(1), PyStr(<<"1">>)},
       decls |-> {d \in KeyDecls : Len(d) > 0}, lazy |-> FALSE],
      [names |-> {"t1", "t2"}, keys |-> {1}, payloads |-> {PyNone, PyInt(1)},
       decls |-> {d \in KeyDecls : Len(d) > 0}, lazy |-> FALSE],
      [names |-> {"t1", "t2"}, keys |-> {1}, payloads |-> {PyInt(1)},
       decls |-> {d \in KeyDecls : Len(d) = 1}, lazy |-> TRUE] }

\* the values the threads of a run with two caller threads pass: one table
\* name, of no or one key column; or the same with dump's generator stepped
EnvsThreads ==
    { [names |-> {"t1"}, keys |-> {1}, payloads |-> {PyNone, PyInt(1)},
       decls |-> {d \in KeyDecls : Len(d) < 2}, lazy |-> FALSE],
      [names |-> {"t1"}, keys |-> {1}, payloads |-> {PyInt(1)},
       decls |-> {d \in KeyDecls : Len(d) = 1}, lazy |-> TRUE] }

Range(f) == {f[i] : i \in DOMAIN f}

\* a dict with the entries of d1 and of d2, d2's winning: {**d1, **d2}
DictMerge(d1, d2) ==
    [k \in DOMAIN d1 \cup DOMAIN d2 |-> IF k \in DOMAIN d2 THEN d2[k] ELSE d1[k]]

EmptyDict == [k \in {} |-> 0]

\* the keys arguments of put, delete and filter: every mapping of some of the
\* columns a and table to key values
KeyMaps ==
    { DictMerge(ka, kt) :
        ka \in {EmptyDict} \cup {[a |-> i] : i \in env.keys},
        kt \in {EmptyDict} \cup {[table |-> s] : s \in TextKeys} }

\* the keys arguments of get: those, and those with a value entry added
GetKeyMaps == KeyMaps \cup {DictMerge(k, [value |-> NullText]) : k \in KeyMaps}

----------------------------------------------------------------------------
(* Table definitions: create, and MetaData.reflect *)

\* create, lines 22-26: the Table object built from the declared key columns
\* plus the value column, its primary key the declared key columns
NewTable(name, keys) ==
    [ name |-> name,
      columns |-> [i \in 1..Len(keys) |->
                      [name |-> keys[i].name, type |-> types_to_constructors(keys[i].type)]]
                  \o <<[name |-> "value", type |-> types_to_constructors("str")]>>,
      primary_key |-> [i \in 1..Len(keys) |-> keys[i].name] ]

\* table.columns.keys()
ColumnKeys(t) == [i \in 1..Len(t.columns) |-> t.columns[i].name]

\* the names of the tables of the catalog self.tables (a dict, in insertion order)
TableNames(tbls) == {tbls[i].name : i \in 1..Len(tbls)}

\* self.tables[name]
Lookup(tbls, name) == tbls[CHOOSE i \in 1..Len(tbls) : tbls[i].name = name]

\* the names of the database's tables in the order reflection lists them
\* (by name: t1 before t2)
RECURSIVE SortedNames(_)
SortedNames(S) ==
    IF S = {} THEN <<>>
    ELSE LET n == CHOOSE x \in S : \A y \in S : y = x \/ (x = "t1" /\ y = "t2")
         IN  <<n>> \o SortedNames(S \ {n})

\* MetaData.reflect: one Table per table of the database, with its columns and
\* primary key as persisted
reflect(d) ==
    [n \in DOMAIN d |->
        [name |-> n, columns |-> d[n].columns, primary_key |-> d[n].primary_key]]

\* an __init__ that leaves the catalog empty
InitTables_empty(md) == <<>>

\* __init__, lines 17-19: the catalog holds every reflected table
InitTables(md) == [i \in 1..Cardinality(DOMAIN md) |-> md[SortedNames(DOMAIN md)[i]]]

----------------------------------------------------------------------------
(* The statements the operations execute on the backing store *)

\* where, lines 33-34: table.c[key] raises KeyError for a key that is no column
WhereOk(t, keys) == DOMAIN keys \subseteq Range(ColumnKeys(t))

\* a predicate that matches every row
where_every(keys, r) == TRUE

\* where, lines 33-34: the conjunction of column = value over the key mapping
where(keys, r) == \A k \in DOMAIN keys : r[k] = keys[k]

\* table.select().where(...): the matching rows, in the store's order
select(rows, keys) ==
    LET Test(r) == where(keys, r) IN SelectSeq(rows, Test)

\* a DELETE that removes nothing
delete_nothing(rows, keys) == rows

\* table.delete().where(...): the rows that do not match
delete_from(rows, keys) ==
    LET Test(r) == ~where(keys, r) IN SelectSeq(rows, Test)

\* an UPDATE that writes nothing
update_nothing(rows, keys, value) == rows

\* table.update().values(value=value).where(...)
update(rows, keys, value) ==
    [i \in 1..Len(rows) |->
        IF where(keys, rows[i]) THEN [rows[i] EXCEPT !["value"] = value] ELSE rows[i]]

\* the PRIMARY KEY constraint create declares (line 25), which the store checks
\* on INSERT: some stored row has the new row's value in every key column; a
\* table declared with no key column has no such constraint
PrimaryKeyViolated(d, row) ==
    /\ Len(d.primary_key) > 0
    /\ \E i \in 1..Len(d.rows) : \A c \in Range(d.primary_key) : d.rows[i][c] = row[c]

\* the asserts left out, as if they were compiled away
KeyComplete_unchecked(t, keys) == TRUE

\* the assert of put, delete and get (lines 38, 49-51, 74-76): every column
\* of the table other than value is among the keys
KeyComplete(t, keys) ==
    \A key \in Range(ColumnKeys(t)) : key \in DOMAIN keys \/ key = "value"

\* the key tuple of a key mapping: its values for the key columns
KeyOf(t, keys) == [c \in Range(t.primary_key) \cap DOMAIN keys |-> keys[c]]

----------------------------------------------------------------------------
(* Results of filter and dump *)

\* filter, lines 64-71: of one row, the columns not among the keys, value decoded
FilterRow(t, keys, r) ==
    [key \in Range(ColumnKeys(t)) \ DOMAIN keys |->
        IF key # "value" THEN r[key] ELSE loads(r[key])]

\* a filter that ignores its keys when it selects
FilterResult_unfiltered(t, rows, keys) ==
    [i \in 1..Len(rows) |-> FilterRow(t, keys, rows[i])]

\* filter, lines 59-71
FilterResult(t, rows, keys) ==
    LET records == IF Cardinality(DOMAIN keys) = 0 THEN rows ELSE select(rows, keys)
    IN  [i \in 1..Len(records) |-> FilterRow(t, keys, records[i])]

\* dump, lines 91-93: the row as a dict, its value decoded, under a table entry
DumpRow(t, r) ==
    LET data == [r EXCEPT !["value"] = loads(r["value"])]
    IN  DictMerge([table |-> t.name], data)

\* dump, lines 89-93, iterated to its end: the rows of every table of the
\* catalog, table after table
RECURSIVE DumpAll(_, _)
DumpAll(tbls, d) ==
    IF tbls = <<>> THEN <<>>
    ELSE LET t == Head(tbls)
             rows == d[t.name].rows
         IN  [i \in 1..Len(rows) |-> DumpRow(t, rows[i])] \o DumpAll(Tail(tbls), d)

----------------------------------------------------------------------------
(* The state machine *)

Idle == [at |-> "idle"]

\* the last step of a call: a call that returned, its outcome "ok" or the
\* exception it raised, or a put that executed its SELECT ("selected")
Ev(op, table, keys, value, outcome, result) ==
    [op |-> op, table |-> table, keys |-> keys, value |-> value,
     outcome |-> outcome, result |-> result]

NoPuts == [x \in {} |-> PyNone]

\* no generator: dump was not called, or its generator ended or was closed
NoGen == [at |-> "none"]

\* the stored records, each with the name of its table
Records(d) == UNION {{<<n, d[n].rows[i]>> : i \in 1..Len(d[n].rows)} : n \in DOMAIN d}

\* history of the generator: of the records stored when dump was called, those
\* that were not deleted or rewritten up to the database d
Touch(g, d) == IF g = NoGen THEN g ELSE [g EXCEPT !.kept = @ \cap Records(d)]

\* the state after MultiKeyDB(filename) on a new file, called by one thread
Init ==
    /\ db = [n \in {} |-> 0]
    /\ metadata = reflect(db)
    /\ tables = InitTables(metadata)
    /\ pc = [th \in {"T1"} |-> Idle]
    /\ last = NoPuts
    /\ ev = Ev("init", "", EmptyDict, PyNone, "ok", PyNone)
    /\ env \in Envs
    /\ gen = NoGen
    /\ txns = {}
    /\ began = FALSE

\* the same, the instance shared by the threads of the process
InitThreads ==
    /\ db = [n \in {} |-> 0]
    /\ metadata = reflect(db)
    /\ tables = InitTables(metadata)
    /\ pc = [th \in Threads |-> Idle]
    /\ last = NoPuts
    /\ ev = Ev("init", "", EmptyDict, PyNone, "ok", PyNone)
    /\ env \in EnvsThreads
    /\ gen = NoGen
    /\ txns = {}
    /\ began = FALSE

\* closing the store, no call or generator of it left, and
\* MultiKeyDB(filename) on the same file (lines 12-19)
Reopen ==
    /\ \A th \in DOMAIN pc : pc[th] = Idle
    /\ gen = NoGen
    /\ metadata' = reflect(db)
    /\ tables' = InitTables(metadata')
    /\ ev' = Ev("init", "", EmptyDict, PyNone, "ok", PyNone)
    /\ began' = FALSE
    /\ UNCHANGED <<db, pc, last, env, gen, txns>>

\* a MetaData that lets a table be defined again
AlreadyDefined_never(md, name) == FALSE

\* Table(name, metadata, *columns), line 26: SQLAlchemy refuses to define, with
\* columns, a table the MetaData has
AlreadyDefined(md, name) == name \in DOMAIN md

\* create(table, keys), lines 21-28
Create(th, name, keys) ==
    /\ pc[th] = Idle
    /\ began' = FALSE
    /\ UNCHANGED <<gen, txns>>
    /\ IF AlreadyDefined(metadata, name)
       THEN \* Table(name, metadata, *columns): already defined for this MetaData
            /\ ev' = Ev("create", name, keys, PyNone, "InvalidRequestError", PyNone)
            /\ UNCHANGED <<db, metadata, tables, pc, last, env>>
       ELSE LET table == NewTable(name, keys) IN
            /\ metadata' = DictMerge(metadata, [n \in {name} |-> table])
            \* table.create(checkfirst=True)
            /\ db' = IF name \in DOMAIN db THEN db
                      ELSE DictMerge(db, [n \in {name} |->
                               [columns |-> table.columns,
                                primary_key |-> table.primary_key, rows |-> <<>>]])
            /\ tables' = IF name \in TableNames(tables)
                          THEN [i \in 1..Len(tables) |->
                                   IF tables[i].name = name THEN table ELSE tables[i]]
                          ELSE Append(tables, table)
            /\ ev' = Ev("create", name, keys, PyNone, "ok", PyNone)
            /\ UNCHANGED <<pc, last, env>>

\* exist_table(table), lines 30-31
ExistTable(th, name) ==
    /\ pc[th] = Idle
    /\ ev' = Ev("exist_table", name, EmptyDict, PyNone, "ok", name \in TableNames(tables))
    /\ began' = FALSE
    /\ UNCHANGED <<db, metadata, tables, pc, last, env, gen, txns>>

\* a call that raised before its with engine.begin(): nothing but the record
\* of the call changes
Raise(e) ==
    /\ ev' = e
    /\ began' = FALSE
    /\ UNCHANGED <<db, metadata, tables, pc, last, env, gen, txns>>

\* a call that entered engine.begin(), wrote nothing, and left it, returning
\* (the commit) or raising (the rollback)
Leave(e) ==
    /\ ev' = e
    /\ began' = TRUE
    /\ UNCHANGED <<db, metadata, tables, pc, last, env, gen, txns>>

\* the NOT NULL of a primary key column: the new row gives it no value
NotNullViolated(d, row) == \E c \in Range(d.primary_key) : c \notin DOMAIN row

\* table.insert().values(...), executed: the store refuses a row without a
\* value for a key column, and a duplicate primary key
insert(d, row) ==
    IF NotNullViolated(d, row) \/ PrimaryKeyViolated(d, row)
    THEN [error |-> TRUE, rows |-> d.rows]
    ELSE [error |-> FALSE, rows |-> Append(d.rows, row)]

\* put(table, keys, value), lines 36-42: the checks and the SELECT
PutSelect(th, name, keys, v) ==
    /\ pc[th] = Idle
    /\ IF name \notin TableNames(tables)
       THEN Raise(Ev("put", name, keys, v, "KeyError", PyNone))
       ELSE LET table == Lookup(tables, name) IN
            IF ~KeyComplete(table, keys)
            THEN Raise(Ev("put", name, keys, v, "AssertionError", PyNone))
            ELSE IF ~WhereOk(table, keys)
            THEN Leave(Ev("put", name, keys, v, "KeyError", PyNone))
            ELSE /\ pc' = [pc EXCEPT ![th] =
                            [at |-> "put", table |-> name, keys |-> keys, v |-> v,
                             value |-> dumps(v),
                             q |-> Len(select(db[name].rows, keys))]]
                 /\ ev' = Ev("put", name, keys, v, "selected", PyNone)
                 /\ txns' = txns \cup {th}
                 /\ began' = TRUE
                 /\ UNCHANGED <<db, metadata, tables, last, env, gen>>

\* a put that returned, with the number of rows its SELECT had found
PutEv(p, outcome) ==
    [op |-> "put", table |-> p.table, keys |-> p.keys, value |-> p.v,
     outcome |-> outcome, result |-> PyNone, found |-> p.q]

\* put, lines 43-46: the INSERT or the UPDATE, and the commit
PutWrite(th) ==
    /\ pc[th] # Idle
    /\ pc[th].at = "put"
    /\ LET p == pc[th]
           table == Lookup(tables, p.table)
           key == <<p.table, KeyOf(table, p.keys)>>
           done == DictMerge(last, [x \in {key} |-> p.v])
       IN  IF p.q = 0
           THEN IF "value" \in DOMAIN p.keys
                THEN \* values(value=value, **keys): value given twice
                     /\ ev' = PutEv(p, "TypeError")
                     /\ UNCHANGED <<db, last, gen>>
                ELSE LET r == insert(db[p.table], DictMerge(p.keys, [value |-> p.value]))
                     IN  IF r.error
                         THEN /\ ev' = PutEv(p, "IntegrityError")
                              /\ UNCHANGED <<db, last, gen>>
                         ELSE /\ db' = [db EXCEPT ![p.table].rows = r.rows]
                              /\ last' = done
                              /\ gen' = Touch(gen, db')
                              /\ ev' = PutEv(p, "ok")
           ELSE /\ db' = [db EXCEPT ![p.table].rows = update(@, p.keys, p.value)]
                /\ last' = done
                /\ gen' = Touch(gen, db')
                /\ ev' = PutEv(p, "ok")
    /\ pc' = [pc EXCEPT ![th] = Idle]
    /\ txns' = txns \ {th}
    /\ began' = TRUE
    /\ UNCHANGED <<metadata, tables, env>>

\* delete(table, keys), lines 48-54
Delete(th, name, keys) ==
    /\ pc[th] = Idle
    /\ IF name \notin TableNames(tables)
       THEN Raise(Ev("delete", name, keys, PyNone, "KeyError", PyNone))
       ELSE LET table == Lookup(tables, name) IN
            IF ~KeyComplete(table, keys)
            THEN Raise(Ev("delete", name, keys, PyNone, "AssertionError", PyNone))
            ELSE IF ~WhereOk(table, keys)
            THEN Leave(Ev("delete", name, keys, PyNone, "KeyError", PyNone))
            ELSE /\ db' = [db EXCEPT ![name].rows = delete_from(@, keys)]
                 /\ last' = [x \in DOMAIN last \ {<<name, KeyOf(table, keys)>>} |-> last[x]]
                 /\ gen' = Touch(gen, db')
                 /\ began' = TRUE
                 /\ ev' = [op |-> "delete", table |-> name, keys |-> keys,
                           value |-> PyNone, outcome |-> "ok", result |-> PyNone,
                           rowcount |-> Len(select(db[name].rows, keys))]
                 /\ UNCHANGED <<metadata, tables, pc, env, txns>>

\* filter(table, keys), lines 56-71
Filter(th, name, keys) ==
    /\ pc[th] = Idle
    /\ IF name \notin TableNames(tables)
       THEN Raise(Ev("filter", name, keys, PyNone, "KeyError", PyNone))
       ELSE LET table == Lookup(tables, name) IN
            IF ~WhereOk(table, keys)
            THEN Leave(Ev("filter", name, keys, PyNone, "KeyError", PyNone))
            ELSE Leave(Ev("filter", name, keys, PyNone, "ok",
                          FilterResult(table, db[name].rows, keys)))

\* get, lines 82-85: None for no row, or the first row's value decoded
GetResult(records) ==
    IF Len(records) = 0 THEN PyNone ELSE loads(records[1]["value"])

\* a get that lets value be among the keys
ValueKeyed_allowed(keys) == FALSE

\* get, line 77: the assert that value is not among the keys
ValueKeyed(keys) == "value" \in DOMAIN keys

\* get(table, keys), lines 73-85
Get(th, name, keys) ==
    /\ pc[th] = Idle
    /\ IF name \notin TableNames(tables)
       THEN Raise(Ev("get", name, keys, PyNone, "KeyError", PyNone))
       ELSE LET table == Lookup(tables, name) IN
            IF ~KeyComplete(table, keys) \/ ValueKeyed(keys)
            THEN Raise(Ev("get", name, keys, PyNone, "AssertionError", PyNone))
            ELSE IF ~WhereOk(table, keys)
            THEN Leave(Ev("get", name, keys, PyNone, "KeyError", PyNone))
            ELSE Leave(Ev("get", name, keys, PyNone, "ok",
                          GetResult(select(db[name].rows, keys))))

\* dump(), lines 87-93, iterated to its end by the caller
Dump(th) ==
    /\ pc[th] = Idle
    /\ Leave(Ev("dump", "", EmptyDict, PyNone, "ok", DumpAll(tables, db)))

\* dump(), line 87, called and not iterated: the generator object, none of
\* its body executed yet
DumpCall(th) ==
    /\ env.lazy
    /\ pc[th] = Idle
    /\ gen = NoGen
    /\ gen' = [at |-> "created", pos |-> 0, used |-> 0, records |-> <<>>, i |-> 0,
               kept |-> Records(db), yielded |-> <<>>]
    /\ ev' = Ev("generator", "", EmptyDict, PyNone, "ok", PyNone)
    /\ began' = FALSE
    /\ UNCHANGED <<db, metadata, tables, pc, last, env, txns>>

\* dump, lines 89-93, resumed: to the next row fetched of the table the loop
\* is at; or, these used up, to the next table of self.tables.values() and
\* its rows as stored now. The dict's iterator refuses to go on once the dict
\* has another size than when the loop began, and ends after its last entry.
RECURSIVE Resume(_, _, _)
Resume(tbls, d, g) ==
    IF g.i < Len(g.records) THEN [outcome |-> "ok", g |-> [g EXCEPT !.i = @ + 1]]
    ELSE IF Len(tbls) # g.used THEN [outcome |-> "RuntimeError", g |-> g]
    ELSE IF g.pos = g.used THEN [outcome |-> "StopIteration", g |-> g]
    ELSE Resume(tbls, d, [g EXCEPT !.pos = @ + 1, !.i = 0,
                                   !.records = d[tbls[g.pos + 1].name].rows])

\* next(generator): the first one enters with engine.begin() (line 88) and
\* starts the loop over self.tables.values(); a yield (line 93) suspends the
\* generator inside the with; the end of the loop, or an exception, leaves it
DumpNext(th) ==
    /\ pc[th] = Idle
    /\ gen # NoGen
    /\ LET g == IF gen.at = "created"
                THEN [gen EXCEPT !.at = "yield", !.used = Len(tables)]
                ELSE gen
           r == Resume(tables, db, g)
           table == tables[r.g.pos]
           row == r.g.records[r.g.i]
       IN  IF r.outcome = "ok"
           THEN /\ gen' = [r.g EXCEPT !.yielded = Append(@, <<table.name, row>>)]
                /\ txns' = txns \cup {"dump"}
                /\ ev' = Ev("next", table.name, EmptyDict, PyNone, "ok", DumpRow(table, row))
           ELSE /\ gen' = NoGen
                /\ txns' = txns \ {"dump"}
                /\ ev' = [op |-> "next", table |-> "", keys |-> EmptyDict, value |-> PyNone,
                          outcome |-> r.outcome, result |-> PyNone,
                          kept |-> gen.kept, yielded |-> gen.yielded]
    /\ began' = (gen.at = "created")
    /\ UNCHANGED <<db, metadata, tables, pc, last, env>>

\* the generator closed, by the caller or when it is garbage collected: the
\* GeneratorExit raised at the yield leaves the with
DumpClose ==
    /\ gen # NoGen
    /\ gen' = NoGen
    /\ txns' = txns \ {"dump"}
    /\ ev' = Ev("close", "", EmptyDict, PyNone, "ok", PyNone)
    /\ began' = FALSE
    /\ UNCHANGED <<db, metadata, tables, pc, last, env>>

Next ==
    \/ Reopen
    \/ \E th \in DOMAIN pc, name \in env.names, keys \in env.decls : Create(th, name, keys)
    \/ \E th \in DOMAIN pc, name \in env.names : ExistTable(th, name)
    \/ \E th \in DOMAIN pc, name \in env.names, keys \in KeyMaps, v \in env.payloads :
           PutSelect(th, name, keys, v)
    \/ \E th \in DOMAIN pc : PutWrite(th)
    \/ \E th \in DOMAIN pc, name \in env.names, keys \in KeyMaps : Delete(th, name, keys)
    \/ \E th \in DOMAIN pc, name \in env.names, keys \in KeyMaps : Filter(th, name, keys)
    \/ \E th \in DOMAIN pc, name \in env.names, keys \in GetKeyMaps : Get(th, name, keys)
    \/ \E th \in DOMAIN pc : Dump(th)
    \/ \E th \in DOMAIN pc : DumpCall(th)
    \/ \E th \in DOMAIN pc : DumpNext(th)
    \/ DumpClose

\* one caller thread: the calls run one after the other
Spec == Init /\ [][Next]_vars

\* the instance shared by two caller threads, whose calls interleave
SpecThreads == InitThreads /\ [][Next]_vars

----------------------------------------------------------------------------
(* The claims *)

\* the rows of table name whose key columns have the values of key tuple K
RowsOf(name, K) ==
    {i \in 1..Len(db[name].rows) : \A c \in DOMAIN K : db[name].rows[i][c] = K[c]}

\* C1 (upsert convergence): after put(K, v1), ..., put(K, vn) with no delete of
\* K in between, whatever was done to other keys, the table holds exactly one
\* record for K and get(K) returns exactly vn.
C1_UpsertConvergence ==
    /\ \A x \in DOMAIN last : Cardinality(RowsOf(x[1], x[2])) = 1
    /\ (ev.op = "get" /\ ev.outcome = "ok" /\ <<ev.table, ev.keys>> \in DOMAIN last)
           => ev.result = last[<<ev.table, ev.keys>>]

\* a second or later put of a key returned, in a table that holds another key too
C1_Witness ==
    /\ ev.op = "put" /\ ev.outcome = "ok" /\ ev.found = 1
    /\ last[<<ev.table, ev.keys>>] = ev.value
    /\ Len(db[ev.table].rows) = 2

\* C2 (key uniqueness): in every reachable state, whatever calls the threads
\* interleaved, no table holds two records with the same value in every key
\* column.
C2_KeyUniqueness ==
    \A name \in DOMAIN db : \A i, j \in 1..Len(db[name].rows) :
        (\A c \in Range(db[name].primary_key) :
            db[name].rows[i][c] = db[name].rows[j][c]) => i = j

\* the key columns of table name, as the catalog has them
KeyColumns(name) == Range(Lookup(tables, name).primary_key)

\* C3 (idempotent creation): a create whose table name is registered with the
\* same key columns does not raise, and leaves the table's definition, the
\* stored records and the catalog as they were.
C3_IdempotentCreate ==
    [][ ( /\ ev'.op = "create"
          /\ ev'.table \in TableNames(tables)
          /\ Lookup(tables, ev'.table).columns = NewTable(ev'.table, ev'.keys).columns )
        => ( /\ ev'.outcome = "ok"
             /\ db' = db
             /\ ev'.table \in TableNames(tables')
             /\ Lookup(tables', ev'.table) = Lookup(tables, ev'.table) ) ]_vars

\* C4 (atomic upsert): a put with a complete key, whatever puts of the same key
\* other threads run at the same time, completes successfully: its existence
\* check and its write are one step, so no duplicate key is refused.
C4_AtomicUpsert ==
    ( /\ ev.op = "put"
      /\ ev.outcome # "selected"
      /\ ev.table \in TableNames(tables)
      /\ DOMAIN ev.keys = KeyColumns(ev.table) )
    => ev.outcome = "ok"

\* C5 (completeness check): get, put or delete with a key mapping that omits
\* a key column of the table fails with the incomplete-key error (the failed
\* assertion) and changes no record and no catalog entry.
C5_CompletenessCheck ==
    [][ ( /\ ev'.op \in {"get", "put", "delete"}
          /\ ev'.table \in TableNames(tables)
          /\ \E c \in KeyColumns(ev'.table) : c \notin DOMAIN ev'.keys )
        => ( /\ ev'.outcome = "AssertionError"
             /\ db' = db
             /\ tables' = tables
             /\ metadata' = metadata ) ]_vars

\* delete was called with a alone on a table keyed by a and table that holds
\* a record with that a: it failed, and the record is there
C5_Witness ==
    /\ ev.op = "delete" /\ ev.outcome = "AssertionError"
    /\ ev.table \in TableNames(tables)
    /\ KeyColumns(ev.table) = {"a", "table"}
    /\ DOMAIN ev.keys = {"a"}
    /\ RowsOf(ev.table, ev.keys) # {}

\* C6 (get distinguishes present from absent): get(K) returns the decoded
\* payload when a record for K exists, the absent result when none exists, and
\* the absent result only when none exists.
C6_GetPresentOrAbsent ==
    (ev.op = "get" /\ ev.outcome = "ok") =>
        LET hits == RowsOf(ev.table, ev.keys) IN
        /\ hits = {} => ev.result = PyNone
        /\ hits # {} => ev.result = last[<<ev.table, ev.keys>>]
        /\ ev.result = PyNone => hits = {}

\* the rows of a sequence with the row at index i left out
Without(rows, i) ==
    [j \in 1..(Len(rows) - 1) |-> IF j < i THEN rows[j] ELSE rows[j + 1]]

\* C7 (filter partiality): filter(table, S), S a mapping of none, some or all of
\* the key columns, returns one mapping per stored record whose columns named
\* in S have the given values, and no other; each mapping holds exactly the
\* columns not named in S, the value being the payload that was put.
C7_FilterPartiality ==
    (ev.op = "filter" /\ ev.outcome = "ok") =>
        LET rows == db[ev.table].rows
            hits == RowsOf(ev.table, ev.keys)
            rest == (KeyColumns(ev.table) \cup {"value"}) \ DOMAIN ev.keys
        IN  /\ Len(ev.result) = Cardinality(hits)
            /\ \A i \in hits :
                   LET m == ev.result[Cardinality({j \in hits : j <= i})]
                   IN  /\ DOMAIN m = rest
                       /\ \A c \in rest \ {"value"} : m[c] = rows[i][c]
                       /\ m["value"] = last[<<ev.table, KeyOf(Lookup(tables, ev.table), rows[i])>>]

\* filter was called with a alone on a table keyed by a and table that holds
\* two records, one of them with that a
C7_Witness ==
    /\ ev.op = "filter" /\ ev.outcome = "ok"
    /\ KeyColumns(ev.table) = {"a", "table"}
    /\ DOMAIN ev.keys = {"a"}
    /\ Len(db[ev.table].rows) = 2
    /\ Len(ev.result) = 1

\* C8 (delete): delete(table, K) with a complete key K returns without error;
\* when no record for K exists it leaves every record and the catalog
\* unchanged, and when one exists it removes exactly that record, after which
\* get(K) returns the absent result.
C8_Delete ==
    [][ ( /\ ev'.op = "delete"
          /\ ev'.table \in TableNames(tables)
          /\ DOMAIN ev'.keys = KeyColumns(ev'.table) )
        => LET name == ev'.table
               rows == db[name].rows
               hits == RowsOf(name, ev'.keys)
           IN  /\ ev'.outcome = "ok"
               /\ tables' = tables
               /\ metadata' = metadata
               /\ DOMAIN db' = DOMAIN db
               /\ \A n \in DOMAIN db \ {name} : db'[n] = db[n]
               /\ hits = {} => db' = db
               /\ hits # {} =>
                      /\ \E i \in hits : db'[name].rows = Without(rows, i)
                      /\ GetResult(select(db'[name].rows, ev'.keys)) = PyNone ]_vars

\* delete was called with the complete key of no record on a table that
\* holds a record: it returned, and the record is there
C8_Witness ==
    /\ ev.op = "delete" /\ ev.outcome = "ok" /\ ev.rowcount = 0
    /\ DOMAIN ev.keys = KeyColumns(ev.table)
    /\ Len(db[ev.table].rows) = 1

\* the number of rows of the tables of the catalog
RECURSIVE RowCount(_)
RowCount(tbls) ==
    IF tbls = <<>> THEN 0 ELSE Len(db[Head(tbls).name].rows) + RowCount(Tail(tbls))

\* C9 (dump enumerates the store): dump, iterated to its end, yields exactly
\* one mapping per stored record of every table of the catalog, holding the
\* record's columns with the value that was put, and a table entry equal to
\* the name of the record's table, whatever the key columns are called.
C9_DumpEnumerates ==
    ev.op = "dump" =>
        /\ Len(ev.result) = RowCount(tables)
        /\ \A t \in Range(tables) : \A i \in 1..Len(db[t.name].rows) :
               LET r == db[t.name].rows[i]
                   cols == Range(ColumnKeys(t))
               IN  Cardinality(
                     { k \in 1..Len(ev.result) :
                         /\ DOMAIN ev.result[k] = cols \cup {"table"}
                         /\ ev.result[k]["table"] = t.name
                         /\ \A c \in cols \ {"value", "table"} : ev.result[k][c] = r[c]
                         /\ ev.result[k]["value"] = last[<<t.name, KeyOf(t, r)>>] }) = 1

\* C10 (reopening reconstructs the registry): after the store is closed and
\* a new instance initialized on the same file, exist_table is true exactly
\* for the tables that had been created, each has the same columns, and get
\* and filter return what they returned before.
C10_Reopen ==
    [][ ev'.op = "init" =>
          /\ TableNames(tables') = TableNames(tables)
          /\ TableNames(tables') = DOMAIN db
          /\ \A n \in TableNames(tables) :
                 /\ Lookup(tables', n).columns = Lookup(tables, n).columns
                 /\ \A keys \in KeyMaps : WhereOk(Lookup(tables, n), keys) =>
                        /\ FilterResult(Lookup(tables', n), db'[n].rows, keys)
                              = FilterResult(Lookup(tables, n), db[n].rows, keys)
                        /\ GetResult(select(db'[n].rows, keys))
                              = GetResult(select(db[n].rows, keys)) ]_vars

\* the store was reopened with two tables, one of them holding a record
C10_Witness ==
    /\ ev.op = "init"
    /\ Len(tables) = 2
    /\ \E n \in DOMAIN db : Len(db[n].rows) > 0

\* C11 (preconditions first): put, delete, get or filter on a table name that
\* is not in the catalog, and get with a value entry among its keys, fail with
\* an error without entering a transaction, and leave the records, the
\* catalog and the MetaData unchanged.
C11_PreconditionsFirst ==
    [][ ( \/ /\ ev'.op \in {"put", "delete", "get", "filter"}
             /\ ev'.table \notin TableNames(tables)
          \/ /\ ev'.op = "get"
             /\ "value" \in DOMAIN ev'.keys )
        => ( /\ ev'.outcome \in {"KeyError", "AssertionError"}
             /\ ~began'
             /\ txns' = txns
             /\ db' = db
             /\ tables' = tables
             /\ metadata' = metadata ) ]_vars

\* get was called with the complete key of a stored record and a value entry
\* equal to the record's text: it failed, and entered no transaction
C11_Witness ==
    /\ ev.op = "get" /\ ev.outcome = "AssertionError" /\ ~began
    /\ ev.table \in TableNames(tables)
    /\ DOMAIN ev.keys = KeyColumns(ev.table) \cup {"value"}
    /\ select(db[ev.table].rows, ev.keys) # <<>>

\* C12 (schema immutability): a create that registers a table gives it the
\* declared key columns plus value; and whatever is called then, a create of
\* the same name with the same or other key columns included, the table stays
\* in the catalog with the same columns, and the persisted table has the
\* columns and the primary key of the catalog's definition.
C12_SchemaImmutable ==
    [][ /\ (ev'.op = "create" /\ ev'.outcome = "ok") =>
               ColumnKeys(Lookup(tables', ev'.table))
                   = [i \in 1..Len(ev'.keys) |-> ev'.keys[i].name] \o <<"value">>
        /\ \A n \in TableNames(tables) :
               /\ n \in TableNames(tables')
               /\ Lookup(tables', n).columns = Lookup(tables, n).columns
        /\ \A n \in TableNames(tables') :
               /\ n \in DOMAIN db'
               /\ db'[n].columns = Lookup(tables', n).columns
               /\ db'[n].primary_key = Lookup(tables', n).primary_key ]_vars

\* create was called with other key columns for a registered table that holds
\* a record, and changed nothing
C12_Witness ==
    /\ ev.op = "create" /\ ev.outcome = "InvalidRequestError"
    /\ ev.table \in TableNames(tables)
    /\ NewTable(ev.table, ev.keys).columns # Lookup(tables, ev.table).columns
    /\ Len(db[ev.table].rows) > 0

\* the key tuple of a stored row of table name
RowKey(name, r) == KeyOf(Lookup(tables, name), r)

\* C13 (frame): a stored record of table T with key tuple K stays stored, with
\* its payload, across every step but the write of a put of T and K and a
\* delete of T and K; across the write of such a put a record of T with key K
\* stays stored.
C13_Frame ==
    [][ \A n \in DOMAIN db : \A i \in 1..Len(db[n].rows) :
          LET r == db[n].rows[i]
              K == RowKey(n, r)
              own == /\ ev'.op \in {"put", "delete"}
                     /\ ev'.table = n
                     /\ ev'.outcome = "ok"
                     /\ KeyOf(Lookup(tables, n), ev'.keys) = K
          IN  /\ n \in DOMAIN db'
              /\ ~own => \E j \in 1..Len(db'[n].rows) : db'[n].rows[j] = r
              /\ (own /\ ev'.op = "put") =>
                     \E j \in 1..Len(db'[n].rows) : RowKey(n, db'[n].rows[j]) = K ]_vars

\* the record of one key was deleted from a table that held another record,
\* which is still there
C13_Witness ==
    /\ ev.op = "delete" /\ ev.outcome = "ok" /\ ev.rowcount = 1
    /\ Len(db[ev.table].rows) = 1
    /\ RowKey(ev.table, db[ev.table].rows[1]) # KeyOf(Lookup(tables, ev.table), ev.keys)

\* C14 (transactions are closed by their operation): in every state where no
\* call is executing, a state where the caller has stopped consuming a dump
\* sequence before its end included, no transaction is open.
C14_TransactionsClosed ==
    (\A th \in DOMAIN pc : pc[th] = Idle) => txns = {}

\* C15 (get does not trust uniqueness): a get whose complete key matches more
\* than one stored record does not return a payload: it fails.
C15_GetChecksUniqueness ==
    ( /\ ev.op = "get"
      /\ ev.table \in TableNames(tables)
      /\ DOMAIN ev.keys = KeyColumns(ev.table)
      /\ Len(select(db[ev.table].rows, ev.keys)) > 1 )
    => ev.outcome # "ok"

\* a step of the generator failed
StepFailed == ev.op = "next" /\ ev.outcome \notin {"ok", "StopIteration"}

\* the generator yielded two records of one table with the same key tuple
YieldedTwice ==
    /\ gen # NoGen
    /\ \E i, j \in 1..Len(gen.yielded) :
           /\ i # j
           /\ gen.yielded[i][1] = gen.yielded[j][1]
           /\ RowKey(gen.yielded[i][1], gen.yielded[i][2])
                  = RowKey(gen.yielded[j][1], gen.yielded[j][2])

\* the generator ended without having yielded a record that was stored, the
\* same, from the dump call on
Skipped ==
    /\ ev.op = "next" /\ ev.outcome = "StopIteration"
    /\ \E x \in ev.kept : \A i \in 1..Len(ev.yielded) : ev.yielded[i] # x

\* a dump iterated at once did not yield one mapping per stored record, with
\* the record's key columns (one named table aside) and the payload put
FreshDumpWrong ==
    /\ ev.op = "dump" /\ ev.outcome = "ok"
    /\ \/ Len(ev.result) # RowCount(tables)
       \/ \E t \in Range(tables) : \E i \in 1..Len(db[t.name].rows) :
              LET r == db[t.name].rows[i]
                  cols == Range(ColumnKeys(t)) \ {"value", "table"}
              IN  \A k \in 1..Len(ev.result) :
                      \/ \E c \in cols : c \notin DOMAIN ev.result[k]
                      \/ \E c \in cols : ev.result[k][c] # r[c]
                      \/ ("table" \notin Range(ColumnKeys(t)) /\ ev.result[k]["table"] # t.name)
                      \/ ev.result[k]["value"] # last[<<t.name, KeyOf(t, r)>>]

\* C16 (a partially consumed dump tolerates interleaved calls): with put,
\* delete and create calls made between the steps of a dump sequence, no later
\* step fails, no record is yielded twice, and no record stored from before
\* the dump call until the sequence ended is skipped; and a dump called and
\* iterated after such calls yields exactly the records stored then.
C16_DumpTolerates ==
    ~StepFailed /\ ~YieldedTwice /\ ~Skipped /\ ~FreshDumpWrong

====
